---- MODULE Spec2Model ----
(***************************************************************************)
(* Model of src/goodput.cc: the two pure functions Gpeak (peak single-RTT  *)
(* rate under never-ending slow start) and GoodputBps (inference of the    *)
(* achieved rate from an observed transfer time).                          *)
(*                                                                         *)
(* A behaviour is one call: Call draws the function and its arguments,     *)
(* Gpeak runs in one step (it is straight-line code), GoodputBps runs one  *)
(* step per pass of its while loop followed by the code after the loop.    *)
(*                                                                         *)
(* TLC integers are 32 bits wide while the code multiplies by 1000000 in   *)
(* 64 bits, so every quantity the code scales by MICROS_IN_SEC is carried  *)
(* as a "wide" number: a little-endian sequence of base-10000 limbs with   *)
(* no leading zero limb (<<>> is 0).  Wide products are reduced modulo     *)
(* 2^64 as the code's uint64_t products are.  Packet counts, byte counts,  *)
(* rounds and microsecond durations stay below 2^31 for the inputs drawn   *)
(* here and are plain integers; within that range the double-precision     *)
(* ceil, log2 and fmax of the code are exact.                              *)
(***************************************************************************)
EXTENDS Integers, Sequences, FiniteSets, TLC

MICROS_IN_SEC == 1000000

\* ---- bounds of the argument ranges Call draws from ----------------------
MaxTotalBytes   == 8
MaxInitCwndPkts == 2
MaxMssBytes     == 3
MaxMinRtt       == 3
MaxTotalTime    == 28

\* ======================= wide (multi-limb) arithmetic ====================
Base == 100 * 100

RECURSIVE WNorm(_)
WNorm(a) == IF a = <<>> THEN <<>>
            ELSE IF a[Len(a)] = 0 THEN WNorm(SubSeq(a, 1, Len(a) - 1)) ELSE a

RECURSIVE WNat(_)
WNat(n) == IF n = 0 THEN <<>> ELSE <<n % Base>> \o WNat(n \div Base)

RECURSIVE WToInt(_)
WToInt(a) == IF a = <<>> THEN 0 ELSE Head(a) + Base * WToInt(Tail(a))

RECURSIVE WAddC(_, _, _)
WAddC(a, b, c) ==
    IF a = <<>> /\ b = <<>> THEN (IF c = 0 THEN <<>> ELSE <<c>>)
    ELSE LET x == IF a = <<>> THEN 0 ELSE Head(a)
             y == IF b = <<>> THEN 0 ELSE Head(b)
             s == x + y + c
         IN  <<s % Base>> \o WAddC(IF a = <<>> THEN a ELSE Tail(a),
                                   IF b = <<>> THEN b ELSE Tail(b), s \div Base)

WAdd(a, b) == WAddC(a, b, 0)

RECURSIVE WSubB(_, _, _)
WSubB(a, b, c) ==
    IF a = <<>> THEN <<>>
    ELSE LET y == IF b = <<>> THEN 0 ELSE Head(b)
             d == Head(a) - y - c
         IN  <<d % Base>> \o WSubB(Tail(a), IF b = <<>> THEN b ELSE Tail(b),
                                   IF d < 0 THEN 1 ELSE 0)

\* a - b for a >= b
WSub(a, b) == WNorm(WSubB(a, b, 0))

RECURSIVE WMulSmallC(_, _, _)
WMulSmallC(a, m, c) ==
    IF a = <<>> THEN WNat(c)
    ELSE LET p == Head(a) * m + c
         IN  <<p % Base>> \o WMulSmallC(Tail(a), m, p \div Base)

\* a * m for a limb-sized m
WMulSmall(a, m) == IF m = 0 THEN <<>> ELSE WMulSmallC(a, m, 0)

WShift(a) == IF a = <<>> THEN <<>> ELSE <<0>> \o a

RECURSIVE WMul(_, _)
WMul(a, b) == IF b = <<>> \/ a = <<>> THEN <<>>
              ELSE WAdd(WMulSmall(a, Head(b)), WShift(WMul(a, Tail(b))))

RECURSIVE WLessFrom(_, _, _)
WLessFrom(a, b, i) == IF i = 0 THEN FALSE
                      ELSE IF a[i] # b[i] THEN a[i] < b[i]
                      ELSE WLessFrom(a, b, i - 1)

WLess(a, b) == IF Len(a) # Len(b) THEN Len(a) < Len(b)
               ELSE WLessFrom(a, b, Len(a))

WLeq(a, b) == ~WLess(b, a)

RECURSIVE WDigit(_, _, _, _)
WDigit(cur, b, lo, hi) ==
    IF lo = hi THEN lo
    ELSE LET mid == (lo + hi + 1) \div 2
         IN  IF WLeq(WMulSmall(b, mid), cur) THEN WDigit(cur, b, mid, hi)
             ELSE WDigit(cur, b, lo, mid - 1)

\* the largest d with b * d <= cur, for cur < b * Base
WQuotDigit(cur, b) ==
    IF WLess(cur, b) THEN 0
    ELSE IF Len(cur) <= 2 THEN WToInt(cur) \div WToInt(b)
    ELSE LET n  == Len(b)
             t  == WToInt(SubSeq(cur, n, Len(cur)))
             bt == b[n]
             lo == t \div (bt + 1)
             hi == IF t \div bt > Base - 1 THEN Base - 1 ELSE t \div bt
         IN  WDigit(cur, b, lo, hi)

\* schoolbook long division, most significant limb first
RECURSIVE WDivMod(_, _)
WDivMod(a, b) ==
    IF a = <<>> THEN [q |-> <<>>, r |-> <<>>]
    ELSE LET rest == WDivMod(Tail(a), b)
             cur  == WNorm(<<Head(a)>> \o rest.r)
             d    == WQuotDigit(cur, b)
         IN  [q |-> WNorm(<<d>> \o rest.q), r |-> WSub(cur, WMulSmall(b, d))]

WDiv(a, b) == WDivMod(a, b).q

WMod(a, b) == WDivMod(a, b).r

TwoTo16 == 2 ^ 16

WTwoTo32 == WMul(WNat(TwoTo16), WNat(TwoTo16))

WTwoTo64 == WMul(WTwoTo32, WTwoTo32)

\* ======================= C++ conversions and arithmetic ==================
\* uint64_t(n) for an int64_t n
U64(n) == IF n < 0 THEN WSub(WTwoTo64, WNat(-n)) ELSE WNat(n)

\* product of two uint64_t (four limbs are below 10^16 < 2^64)
Mul64(a, b) == LET p == WMul(a, b)
               IN  IF Len(p) <= 4 THEN p ELSE WMod(p, WTwoTo64)

\* uint16_t(n)
Uint16(n) == n % TwoTo16

\* uint32_t(a) for a wide a
Uint32W(a) == IF Len(a) <= 2 THEN a ELSE WMod(a, WTwoTo32)

\* uint32_t(n) for an int64_t n
Uint32(n) == WToInt(Uint32W(U64(n)))

\* std::fmax
Max(a, b) == IF a >= b THEN a ELSE b

\* 1 << n on int, for n below 31 (from 31 on the shift overflows int)
Shl1(n) == 2 ^ n

\* std::ceil(double(a) / b)
CeilDiv(a, b) == (a + b - 1) \div b

RECURSIVE CeilLog2From(_, _, _)
CeilLog2From(num, den, k) == IF den >= num THEN k
                             ELSE CeilLog2From(num, 2 * den, k + 1)

\* std::ceil(std::log2(num / den)) for num >= den > 0
CeilLog2(num, den) == CeilLog2From(num, den, 0)

\* pkts * mssBytes * MICROS_IN_SEC / micros, the form of lines 68, 93, 146-147
RateBps(pkts, mssBytes, micros) ==
    WDiv(Mul64(Mul64(U64(pkts), U64(mssBytes)), WNat(MICROS_IN_SEC)), U64(micros))

\* ======================= result records ==================================
ModelRate(bytesPerSec, rttsInSlowStart, projectedCwndPkts, lastFullCwndPkts, status) ==
    [bytesPerSec       |-> bytesPerSec,
     rttsInSlowStart   |-> rttsInSlowStart,
     projectedCwndPkts |-> projectedCwndPkts,
     lastFullCwndPkts  |-> lastFullCwndPkts,
     status            |-> status]

\* no value returned yet
NoRate == ModelRate(<<>>, 0, <<>>, 0, "PENDING")

\* variant: the wrong enumerator is returned
MinRttIsZeroRate_WrongStatus ==
    ModelRate(<<>>, 0, <<>>, 0, "ERROR_TRANSFER_FASTER_THAN_MODEL")

MinRttIsZeroRate == ModelRate(<<>>, 0, <<>>, 0, "ERROR_MINRTT_IS_ZERO")

InitCwndSlowerRate == ModelRate(<<>>, 0, <<>>, 0, "ERROR_INIT_CWND_SLOWER_THAN_1BPMS")

\* variant: the window reached is left in the record
TransferFasterRate_KeepsWindow ==
    ModelRate(<<>>, 0, <<>>, 1, "ERROR_TRANSFER_FASTER_THAN_MODEL")

TransferFasterRate == ModelRate(<<>>, 0, <<>>, 0, "ERROR_TRANSFER_FASTER_THAN_MODEL")

\* ======================= Gpeak ===========================================
XferPkts(totalBytes, mssBytes) == CeilDiv(totalBytes, mssBytes)

RttsToLast(xferPkts, initCwndPkts) ==
    CeilLog2(xferPkts + initCwndPkts, initCwndPkts) - 1

\* variant: the window of the last round instead of the one before it
LastFullCwndPkts_NoHalving(rttsToLast, initCwndPkts) ==
    IF rttsToLast > 0 THEN Shl1(rttsToLast) * initCwndPkts ELSE 0

LastFullCwndPkts(rttsToLast, initCwndPkts) ==
    IF rttsToLast > 0 THEN Shl1(rttsToLast - 1) * initCwndPkts ELSE 0

SsPkts(rttsToLast, initCwndPkts) == (Shl1(rttsToLast) - 1) * initCwndPkts

\* the two asserts of Gpeak
GpeakAsserts(totalBytes, initCwndPkts, mssBytes) ==
    LET xfer       == XferPkts(totalBytes, mssBytes)
        rttsToLast == RttsToLast(xfer, initCwndPkts)
    IN  /\ rttsToLast >= 0
        /\ SsPkts(rttsToLast, initCwndPkts) <= xfer

Gpeak(totalBytes, initCwndPkts, mssBytes, minRttCount) ==
    IF minRttCount = 0 THEN MinRttIsZeroRate
    ELSE LET xfer       == XferPkts(totalBytes, mssBytes)
             rttsToLast == RttsToLast(xfer, initCwndPkts)
             lastFullCwndPkts == LastFullCwndPkts(rttsToLast, initCwndPkts)
             ssPkts      == SsPkts(rttsToLast, initCwndPkts)
             lastRttPkts == xfer - ssPkts
             maxRttBytes == Max(lastFullCwndPkts, lastRttPkts)
             GpeakBps    == RateBps(maxRttBytes, mssBytes, minRttCount)
             projectedCwndPkts   == initCwndPkts + xfer
             lastFullCwndPktsMax == Max(initCwndPkts, lastFullCwndPkts)
         IN  ModelRate(GpeakBps, rttsToLast, U64(projectedCwndPkts),
                       Uint16(lastFullCwndPktsMax), "OK")

\* ======================= GoodputBps ======================================
WhileCond(xfer, cumulative) == xfer > cumulative

TputBps(cwndPkts, mssBytes, minRttCount) == RateBps(cwndPkts, mssBytes, minRttCount)

SsXmissionTime(rttCount, mssBytes, tputBps) ==
    WToInt(WDiv(Mul64(Mul64(U64(rttCount), U64(mssBytes)), WNat(MICROS_IN_SEC)), tputBps))

XmissionTime(bytes, cumulative, mssBytes, tputBps) ==
    WToInt(WDiv(Mul64(U64(bytes - cumulative * mssBytes), WNat(MICROS_IN_SEC)), tputBps))

\* variant: one round-trip time too few is charged for the ramp
ModelTime_OneRttShort(bytes, cumulative, cwndPkts, rttCount, mssBytes, minRttCount) ==
    LET tputBps == TputBps(cwndPkts, mssBytes, minRttCount)
    IN  minRttCount * rttCount
          + XmissionTime(bytes, cumulative, mssBytes, tputBps)
          + SsXmissionTime(rttCount, mssBytes, tputBps)

ModelTime(bytes, cumulative, cwndPkts, rttCount, mssBytes, minRttCount) ==
    LET tputBps == TputBps(cwndPkts, mssBytes, minRttCount)
    IN  minRttCount * (rttCount + 1)
          + XmissionTime(bytes, cumulative, mssBytes, tputBps)
          + SsXmissionTime(rttCount, mssBytes, tputBps)

BreakCond(total, model) == total >= model

\* variant: the window grows by one packet instead of doubling
NextCwnd_Increment(cwndPkts) == cwndPkts + 1

\* cwnd <<= 1
NextCwnd(cwndPkts) == 2 * cwndPkts

\* variant: the packets of the undone round stay counted
Backtrack_KeepsPkts(cwndPkts, cumulative, rttCount) ==
    [cwnd |-> cwndPkts \div 2, cumulativePkts |-> cumulative, rtts |-> rttCount - 1]

Backtrack(cwndPkts, cumulative, rttCount) ==
    LET half == cwndPkts \div 2
    IN  [cwnd |-> half, cumulativePkts |-> cumulative - half, rtts |-> rttCount - 1]

\* variant: one round-trip time too few is subtracted
RemainingTime_OffByOne(total, minRttCount, rttCount) == total - minRttCount * rttCount

RemainingTime(total, minRttCount, rttCount) == total - minRttCount * (rttCount + 1)

ProjectedCwndPkts(achievedBps, minRttCount, mssBytes) ==
    WDiv(WDiv(WMul(achievedBps, U64(minRttCount)), WNat(MICROS_IN_SEC)), U64(mssBytes))

\* ======================= the call as a state machine =====================
VARIABLES
    fn,              \* the function called: "Gpeak" or "GoodputBps"
    totalBytes, initCwndPkts, mssBytes, minRtt, totalTime,   \* the arguments
    pc,              \* "idle", "start", "loop", "after", "done" or "abort" (failed assert)
    xferPkts, rtts, cumulativePkts, cwnd, modelTime,         \* the locals
    result,          \* the ModelRate returned
    iters,           \* history: passes of the while loop body begun
    brokeOut         \* history: the loop was left through the break of line 110

args == <<fn, totalBytes, initCwndPkts, mssBytes, minRtt, totalTime>>

vars == <<fn, totalBytes, initCwndPkts, mssBytes, minRtt, totalTime, pc,
          xferPkts, rtts, cumulativePkts, cwnd, modelTime, result, iters, brokeOut>>

\* <<totalBytes, initCwndPkts, mssBytes, minRtt, totalTime>>, all arguments valid
\* except that minRtt may be 0
SmallArgs == (1 .. MaxTotalBytes) \X (1 .. MaxInitCwndPkts) \X (1 .. MaxMssBytes)
                \X (0 .. MaxMinRtt) \X (0 .. MaxTotalTime)

\* minRtt = 0 with the other arguments arbitrary, zero included
ZeroRttArgs == (0 .. 1) \X (0 .. 1) \X (0 .. 1) \X {0} \X (0 .. 1)

\* the fixture of the specification: 10 MB, 10 packets, 1460 bytes, 20 ms
FixtureArgs == {<<10000000, 10, 1460, 20000, t>> :
                   t \in {0, 19999, 20000, 200000, 210669, 400000, 13718630, 20000000}}

\* arguments whose rates, windows or round-trip times are large
LargeArgs == {<<1, 65536, 1, 1, 2>>, <<1, 65536, 1, 1, 0>>,
              <<70000, 40000, 1, 1000, 1500>>,
              <<5000, 1, 5000, 1, 2>>, <<5000, 1, 5000, 1, 1>>,
              <<7500, 1, 1500, 1000000, 3000001>>,
              <<1, 1, 1, 2000000, 1>>, <<1, 1, 1, 2000000, 5000000>>,
              <<3, 1, 1, 1000001, 1000000>>, <<3, 2, 1, 1000001, 2500000>>}

Args == SmallArgs \cup ZeroRttArgs \cup FixtureArgs \cup LargeArgs

\* no call made yet
Init ==
    /\ fn = "none"
    /\ totalBytes = 0
    /\ initCwndPkts = 0
    /\ mssBytes = 0
    /\ minRtt = 0
    /\ totalTime = 0
    /\ pc = "idle"
    /\ xferPkts = 0
    /\ rtts = 0
    /\ cumulativePkts = 0
    /\ cwnd = 0
    /\ modelTime = 0      \* not read before line 106 assigns it
    /\ result = NoRate
    /\ iters = 0
    /\ brokeOut = FALSE

\* the caller invokes one of the two functions on some arguments
Call ==
    /\ pc = "idle"
    /\ fn' \in {"Gpeak", "GoodputBps"}
    /\ \E a \in Args :
          /\ totalBytes' = a[1]
          /\ initCwndPkts' = a[2]
          /\ mssBytes' = a[3]
          /\ minRtt' = a[4]
          /\ totalTime' = IF fn' = "Gpeak" THEN 0 ELSE a[5]
    /\ pc' = "start"
    /\ UNCHANGED <<xferPkts, rtts, cumulativePkts, cwnd, modelTime, result,
                   iters, brokeOut>>

\* lines 38-74
GpeakCall ==
    /\ fn = "Gpeak"
    /\ pc = "start"
    /\ IF minRtt = 0
       THEN /\ result' = Gpeak(totalBytes, initCwndPkts, mssBytes, minRtt)
            /\ pc' = "done"
            /\ UNCHANGED xferPkts
       ELSE /\ xferPkts' = XferPkts(totalBytes, mssBytes)
            /\ IF GpeakAsserts(totalBytes, initCwndPkts, mssBytes)
               THEN /\ result' = Gpeak(totalBytes, initCwndPkts, mssBytes, minRtt)
                    /\ pc' = "done"
               ELSE /\ pc' = "abort"
                    /\ UNCHANGED result
    /\ UNCHANGED <<args, rtts, cumulativePkts, cwnd, modelTime, iters, brokeOut>>

\* lines 81-89
GoodputStart ==
    /\ fn = "GoodputBps"
    /\ pc = "start"
    /\ IF minRtt = 0
       THEN /\ result' = MinRttIsZeroRate
            /\ pc' = "done"
            /\ UNCHANGED <<xferPkts, rtts, cumulativePkts, cwnd>>
       ELSE /\ xferPkts' = XferPkts(totalBytes, mssBytes)
            /\ rtts' = 0
            /\ cumulativePkts' = 0
            /\ cwnd' = initCwndPkts
            /\ pc' = "loop"
            /\ UNCHANGED result
    /\ UNCHANGED <<args, modelTime, iters, brokeOut>>

\* lines 91-115, one pass of the loop body
LoopIter ==
    /\ pc = "loop"
    /\ WhileCond(xferPkts, cumulativePkts)
    /\ iters' = iters + 1
    /\ IF TputBps(cwnd, mssBytes, minRtt) = <<>>
       THEN /\ result' = InitCwndSlowerRate
            /\ pc' = "done"
            /\ UNCHANGED <<rtts, cumulativePkts, cwnd, modelTime, brokeOut>>
       ELSE /\ modelTime' = ModelTime(totalBytes, cumulativePkts, cwnd, rtts, mssBytes, minRtt)
            /\ UNCHANGED result
            /\ IF BreakCond(totalTime, modelTime')
               THEN /\ pc' = "after"
                    /\ brokeOut' = TRUE
                    /\ UNCHANGED <<rtts, cumulativePkts, cwnd>>
               ELSE /\ rtts' = rtts + 1
                    /\ cumulativePkts' = cumulativePkts + cwnd
                    /\ cwnd' = NextCwnd(cwnd)
                    /\ pc' = "loop"
                    /\ UNCHANGED brokeOut
    /\ UNCHANGED <<args, xferPkts>>

\* line 91, the loop condition found false
LoopExit ==
    /\ pc = "loop"
    /\ ~WhileCond(xferPkts, cumulativePkts)
    /\ pc' = "after"
    /\ UNCHANGED <<args, xferPkts, rtts, cumulativePkts, cwnd, modelTime, result,
                   iters, brokeOut>>

\* lines 117-152
Finish ==
    /\ pc = "after"
    /\ LET back == xferPkts <= cumulativePkts
           b    == IF back THEN Backtrack(cwnd, cumulativePkts, rtts)
                   ELSE [cwnd |-> cwnd, cumulativePkts |-> cumulativePkts, rtts |-> rtts]
           remainingTime == RemainingTime(totalTime, minRtt, b.rtts)
           remainingPkts == xferPkts - b.cumulativePkts + b.rtts
           achievedBps   == RateBps(remainingPkts, mssBytes, remainingTime)
       IN  IF back /\ ~(totalTime < modelTime)
           THEN /\ pc' = "abort"
                /\ UNCHANGED <<cwnd, cumulativePkts, rtts, result>>
           ELSE /\ cwnd' = b.cwnd
                /\ cumulativePkts' = b.cumulativePkts
                /\ rtts' = b.rtts
                /\ IF remainingTime <= 0
                   THEN /\ result' = TransferFasterRate
                        /\ pc' = "done"
                   ELSE IF ~(remainingPkts > 0)
                   THEN /\ pc' = "abort"
                        /\ UNCHANGED result
                   ELSE /\ result' = ModelRate(Uint32W(achievedBps), Uint32(b.rtts),
                                         ProjectedCwndPkts(achievedBps, minRtt, mssBytes),
                                         b.cwnd, "OK")
                        /\ pc' = "done"
    /\ UNCHANGED <<args, xferPkts, modelTime, iters, brokeOut>>

Next == Call \/ GpeakCall \/ GoodputStart \/ LoopIter \/ LoopExit \/ Finish

Spec == Init /\ [][Next]_vars

TypeOK ==
    /\ pc \in {"idle", "start", "loop", "after", "done", "abort"}
    /\ result.status \in {"PENDING", "OK", "ERROR_MINRTT_IS_ZERO",
                          "ERROR_INIT_CWND_SLOWER_THAN_1BPMS",
                          "ERROR_TRANSFER_FASTER_THAN_MODEL"}
    /\ (pc = "done") = (result.status # "PENDING")

\* ======================= properties ======================================
Returned == pc \in {"done", "abort"}

ValidArgs == totalBytes > 0 /\ initCwndPkts > 0 /\ mssBytes > 0 /\ minRtt > 0

AllZero(r) == /\ r.bytesPerSec = <<>>
              /\ r.rttsInSlowStart = 0
              /\ r.projectedCwndPkts = <<>>
              /\ r.lastFullCwndPkts = 0

\* a * b * MICROS_IN_SEC / c over the unbounded integers
ScaledQuotient(a, b, c) ==
    WDiv(WMul(WMul(WNat(a), WNat(b)), WNat(MICROS_IN_SEC)), WNat(c))

\* C1: with minRtt = 0 both functions return ERROR_MINRTT_IS_ZERO and every
\* numeric field zero, whatever the other arguments are.
C1_MinRttIsZero ==
    (pc \notin {"idle", "start"} /\ minRtt = 0) =>
        /\ pc = "done"
        /\ result.status = "ERROR_MINRTT_IS_ZERO"
        /\ AllZero(result)

C1_Witness ==
    /\ fn = "GoodputBps" /\ pc = "done" /\ minRtt = 0
    /\ totalBytes > 0 /\ mssBytes > 0 /\ totalTime > 0
    /\ result.status = "ERROR_MINRTT_IS_ZERO"

\* C2 as stated: GoodputBps with valid arguments and totalTime < minRtt returns
\* ERROR_TRANSFER_FASTER_THAN_MODEL.
C2_FasterThanModel ==
    (fn = "GoodputBps" /\ Returned /\ ValidArgs /\ totalTime < minRtt) =>
        result.status = "ERROR_TRANSFER_FASTER_THAN_MODEL"

\* C2 amended: GoodputBps with valid arguments and totalTime < minRtt returns
\* ERROR_TRANSFER_FASTER_THAN_MODEL, unless the rate of the first window,
\* initCwndPkts * mssBytes * 1000000 / minRtt, is zero: then it returns
\* ERROR_INIT_CWND_SLOWER_THAN_1BPMS.
C2_FasterOrSlowInitCwnd ==
    (fn = "GoodputBps" /\ Returned /\ ValidArgs /\ totalTime < minRtt) =>
        /\ pc = "done"
        /\ result.status =
              IF ScaledQuotient(initCwndPkts, mssBytes, minRtt) = <<>>
              THEN "ERROR_INIT_CWND_SLOWER_THAN_1BPMS"
              ELSE "ERROR_TRANSFER_FASTER_THAN_MODEL"

C2_Witness ==
    /\ fn = "GoodputBps" /\ pc = "done" /\ ValidArgs /\ totalTime < minRtt
    /\ totalTime > 0 /\ iters >= 2
    /\ result.status = "ERROR_TRANSFER_FASTER_THAN_MODEL"

\* C3: for valid arguments Gpeak returns OK, rttsInSlowStart is the r with
\* (2^r - 1) * initCwndPkts < xferPkts <= (2^(r+1) - 1) * initCwndPkts, and
\* bytesPerSec = max(L, xferPkts - (2^r - 1) * initCwndPkts) * mssBytes *
\* 1000000 / minRtt with L = initCwndPkts * 2^(r-1) for r > 0 and 0 otherwise;
\* r = 0 when the transfer fits the first window; the fixture gives r = 9 and
\* 186880000.
C3_PeakRate ==
    (fn = "Gpeak" /\ pc # "start" /\ ValidArgs) =>
        LET xfer == (totalBytes + mssBytes - 1) \div mssBytes
            r    == result.rttsInSlowStart
            L    == IF r > 0 THEN initCwndPkts * 2 ^ (r - 1) ELSE 0
            last == xfer - (2 ^ r - 1) * initCwndPkts
        IN  /\ pc = "done"
            /\ result.status = "OK"
            /\ r >= 0
            /\ (2 ^ r - 1) * initCwndPkts < xfer
            /\ xfer <= (2 ^ (r + 1) - 1) * initCwndPkts
            /\ result.bytesPerSec =
                  ScaledQuotient(IF L >= last THEN L ELSE last, mssBytes, minRtt)
            /\ (totalBytes <= initCwndPkts * mssBytes => r = 0)
            /\ (<<totalBytes, initCwndPkts, mssBytes, minRtt>> = <<10000000, 10, 1460, 20000>>
                  => r = 9 /\ xfer = 6850 /\ result.bytesPerSec = WNat(186880000))

C3_Witness ==
    /\ fn = "Gpeak" /\ pc = "done"
    /\ <<totalBytes, initCwndPkts, mssBytes, minRtt>> = <<10000000, 10, 1460, 20000>>
    /\ result.rttsInSlowStart = 9

\* C4: a call with valid arguments never trips an assert and never counts more
\* slow-start packets than the transfer holds: for Gpeak
\* (2^rttsInSlowStart - 1) * initCwndPkts <= xferPkts, for GoodputBps
\* 0 <= cumulativePkts <= xferPkts after the loop and the backtrack.
C4_NoOvershoot ==
    /\ pc # "abort"
    /\ (fn = "Gpeak" /\ pc = "done" /\ result.status = "OK") =>
          (2 ^ result.rttsInSlowStart - 1) * initCwndPkts <= xferPkts
    /\ (fn = "GoodputBps" /\ pc = "done" /\ result.status = "OK") =>
          (0 <= cumulativePkts /\ cumulativePkts <= xferPkts)

C4_Witness ==
    /\ fn = "GoodputBps" /\ pc = "done" /\ result.status = "OK"
    /\ ~brokeOut /\ iters >= 3 /\ cumulativePkts > 0

\* C5 as stated: Gpeak returns lastFullCwndPkts = max(initCwndPkts,
\* initCwndPkts * 2^(rttsInSlowStart - 1)), also at 65536 and above.
C5_LastFullWindow ==
    (fn = "Gpeak" /\ pc = "done" /\ result.status = "OK") =>
        LET r == result.rttsInSlowStart
            L == IF r > 0 THEN initCwndPkts * 2 ^ (r - 1) ELSE 0
        IN  result.lastFullCwndPkts = (IF initCwndPkts >= L THEN initCwndPkts ELSE L)

\* C6 as stated: GoodputBps returns bytesPerSec = (xferPkts - cumulativePkts +
\* rtts) * mssBytes * 1000000 / (totalTime - (rtts + 1) * minRtt) and
\* rttsInSlowStart = rtts, also at 2^32 bytes per second and above.
C6_AchievedRate ==
    (fn = "GoodputBps" /\ pc = "done" /\ result.status = "OK") =>
        /\ result.bytesPerSec =
              ScaledQuotient(xferPkts - cumulativePkts + rtts, mssBytes,
                             totalTime - (rtts + 1) * minRtt)
        /\ result.rttsInSlowStart = rtts

\* C7: every result whose status is an error has all numeric fields zero,
\* however many rounds the search ran.
C7_ErrorsAreZero ==
    (pc = "done" /\ result.status # "OK") => AllZero(result)

C7_Witness ==
    /\ fn = "GoodputBps" /\ pc = "done" /\ iters >= 3
    /\ result.status = "ERROR_TRANSFER_FASTER_THAN_MODEL"

\* the modeled total time of the search at round r (line 106)
ModelTimeAt(r) ==
    ModelTime(totalBytes, (2 ^ r - 1) * initCwndPkts, initCwndPkts * 2 ^ r, r,
              mssBytes, minRtt)

\* C8 as stated: when totalTime equals the modeled total time of a round r the
\* schedule reaches before the transfer is complete, GoodputBps returns OK with
\* rttsInSlowStart = r and bytesPerSec equal to the modeled rate of that round
\* up to rounding (read here as: within a factor of two).
C8_RoundTrip ==
    (fn = "GoodputBps" /\ Returned /\ ValidArgs) =>
        \A r \in 0 .. RttsToLast(xferPkts, initCwndPkts) :
            LET rate == ScaledQuotient(initCwndPkts * 2 ^ r, mssBytes, minRtt)
            IN  ( /\ (2 ^ r - 1) * initCwndPkts < xferPkts
                  /\ rate # <<>>
                  /\ totalTime = ModelTimeAt(r) )
                => /\ pc = "done"
                   /\ result.status = "OK"
                   /\ result.rttsInSlowStart = r
                   /\ WLeq(rate, WMulSmall(result.bytesPerSec, 2))
                   /\ WLeq(result.bytesPerSec, WMulSmall(rate, 2))

\* C9: the search loop terminates within ceil(log2(xferPkts / initCwndPkts + 1))
\* passes; at the start of each pass cwnd = initCwndPkts * 2^rtts and
\* cumulativePkts = (2^rtts - 1) * initCwndPkts.  (iters counts the passes
\* begun, so the bound on iters is the bound on the length of the loop: a pass
\* number n is begun only if n - 1 < log2(xferPkts / initCwndPkts + 1).)
C9_LoopShape ==
    /\ pc = "loop" => /\ cwnd = initCwndPkts * 2 ^ rtts
                      /\ cumulativePkts = (2 ^ rtts - 1) * initCwndPkts
                      /\ iters = rtts
    /\ iters = 0 \/ initCwndPkts * 2 ^ (iters - 1) < xferPkts + initCwndPkts

C9_Witness ==
    /\ fn = "GoodputBps" /\ pc = "done" /\ iters >= 4
    /\ initCwndPkts * 2 ^ iters >= xferPkts + initCwndPkts

\* C10 as stated: when the loop is left through the break the call returns OK,
\* and ERROR_TRANSFER_FASTER_THAN_MODEL comes only from the backtrack path.
C10_BreakReturnsOk ==
    (fn = "GoodputBps" /\ pc = "done") =>
        /\ brokeOut => result.status = "OK"
        /\ result.status = "ERROR_TRANSFER_FASTER_THAN_MODEL" => ~brokeOut

\* C10 amended: when the loop is left through the break, totalTime is at least
\* (rtts + 1) * minRtt and the call returns OK, except that it returns
\* ERROR_TRANSFER_FASTER_THAN_MODEL when totalTime = (rtts + 1) * minRtt (both
\* serialization terms of the round are zero microseconds); that error comes
\* only from this case and from the backtrack path.
C10_BreakReturnsOkUnlessNoTimeLeft ==
    (fn = "GoodputBps" /\ pc = "done") =>
        /\ brokeOut =>
              /\ totalTime >= (rtts + 1) * minRtt
              /\ result.status = IF totalTime = (rtts + 1) * minRtt
                                 THEN "ERROR_TRANSFER_FASTER_THAN_MODEL" ELSE "OK"
        /\ result.status = "ERROR_TRANSFER_FASTER_THAN_MODEL" =>
              \/ totalTime = (rtts + 1) * minRtt
              \/ (~brokeOut /\ xferPkts <= cumulativePkts + cwnd)

C10_Witness ==
    /\ fn = "GoodputBps" /\ pc = "done" /\ brokeOut /\ iters >= 2
    /\ result.status = "OK"
====
